---- MODULE Spec2Model ----
(***************************************************************************)
(* pbreak: a minimal ptrace-based process tracer.                          *)
(*                                                                         *)
(* The source tree holds two variants of the program:                      *)
(*   "split" : cli.rs, session.rs, tracee.rs, ipc.rs (the Tracee handle     *)
(*             with its Drop teardown, an O_CLOEXEC pipe);                  *)
(*   "lib"   : lib.rs, the inline modules ipc, session and cli that         *)
(*             main.rs links against (no handle, a pipe opened with         *)
(*             flags 0, a receive that returns an empty String).            *)
(* Both are modelled; `variant` says which one a behaviour runs.            *)
(*                                                                         *)
(* The tracer is a sequential program (pc); the traced process and the     *)
(* kernel are the environment (proc, childpc, the descriptor tables and    *)
(* the pipe buffer).  Besides the command line client (cli.rs / lib.rs     *)
(* cli) there is an "api" client that calls resume, wait_on_signal and     *)
(* drop on a handle in any order, as the unit tests of tracee.rs do, and a *)
(* "pipe" client that calls send, receive and the two closes on a Pipe of  *)
(* its own, as the unit tests of ipc.rs do.                                *)
(***************************************************************************)
EXTENDS Integers, Sequences, FiniteSets, TLC

VARIABLES
    variant,    \* "split" | "lib"
    client,     \* "cli" | "api" | "pipe"
    cmd,        \* cli::Command: "Missing" | "Attach" | "Fork"; "Pipe" for the pipe client
    pc,         \* the tracer's position
    handle,     \* the Tracee value: "none" | "built" | "returned" | "dropped"
    tracee,     \* [pid, status]: the fields of struct Tracee
    pipe,       \* [read_fd, write_fd]: the fields of struct Pipe (tracer's copy)
    pipeLive,   \* the Pipe value is in scope in the tracer
    errStr,     \* the String returned by pipe.receive()
    received,   \* pipe.receive() has returned
    panicked,   \* the tracer is unwinding from a panic
    why,        \* which panic / which end: "none" | ...
    exitCode,   \* the tracer's process exit status, -2 while it runs
    teardowns,  \* how many times Drop for Tracee has been entered
    tdlog,      \* the OS requests Drop for Tracee has issued, in order
    nread,      \* input lines read by run_session
    ctorWaited, \* a blocking waitpid returned inside from_pid / from_cmd
    pid,        \* the local `pid`: fork's return value or the parsed -p operand
    line,       \* the input line run_session read last
    sends,      \* the messages the pipe client has passed to pipe.send
    closes,     \* close_receiver / close_sender calls and the libc::close they issued
    out,        \* what the command loop printed last, the prompt apart
    proc,       \* the target process as the kernel sees it
    childpc,    \* position of the target's own code
    pfds,       \* pipe descriptors open in the tracer
    cfds,       \* pipe descriptors open in the forked child
    buf,        \* bytes in the pipe
    execd,      \* the forked child has replaced its image by exec
    sent        \* the forked child has written a failure message

tracerVars == <<variant, client, cmd, pc, handle, tracee, pipe, pipeLive, errStr,
                received, panicked, why, exitCode, teardowns, tdlog, nread, ctorWaited, pid,
                line, sends, closes, out>>
kernelVars == <<proc, childpc, pfds, cfds, buf, execd, sent>>
vars == <<tracerVars, kernelVars>>

----------------------------------------------------------------------------
(* Bounds *)

MaxLines == 2
MaxCloses == 3

(* Program and platform constants *)

ReadCap == 128
TargetPid == 7
ForkFailed == -1
UnsetPid == 0
ClosedFd == -1
ReadFd == 3
WriteFd == 4
PanicCode == 101
Running == "Running"
Stopped == "Stopped"
Exited == "Exited"
Terminated == "Terminated"

SIGTRAP == 5
SIGKILL == 9
SIGUSR1 == 10
SIGCONT == 18
SIGSTOP == 19

MsgTraceme == <<112, 116>>
MsgExec == <<101, 120, 101>>

Lines == {"continue", "readgp", "writegp", "readfp", "writefp", "bogus"}

----------------------------------------------------------------------------
(* Wait status words, as waitpid stores them and the W* macros decode them *)

StopStatus(sig) == sig * 256 + 127
ExitStatus(code) == (code % 256) * 256
KillStatus(sig) == sig

WIFSTOPPED(ws) == ws % 256 = 127
\* mutant: only a status word of 0 counts as an exit
WIFEXITEDOnlyZero(ws) == ws = 0

WIFEXITED(ws) == ws % 128 = 0
WIFSIGNALED(ws) == (ws % 128) # 0 /\ (ws % 128) # 127

----------------------------------------------------------------------------
(* The kernel's view of the target process *)

NoProc == [state |-> "none", traced |-> FALSE, child |-> FALSE,
           waitable |-> FALSE, pend |-> 0, ws |-> 0]

Alive(p) == p.state \in {"running", "tstop", "gstop"}

\* The process p ends with wait status w: a zombie for whoever may wait for
\* it (its parent or its tracer), gone otherwise.
Die(p, w) ==
    IF p.child \/ p.traced
    THEN [p EXCEPT !.state = "zombie", !.ws = w, !.pend = 0, !.waitable = FALSE]
    ELSE [NoProc EXCEPT !.state = "gone"]

\* waitpid(pid, &ws, 0) by the tracer: "echild" (returns -1), "block", or
\* "ret" (returns pid and stores p.ws).
WaitKind(p, q) ==
    IF q # TargetPid \/ p.state \in {"none", "gone"} \/ ~(p.child \/ p.traced)
    THEN "echild"
    ELSE IF p.state = "zombie" THEN "ret"
    ELSE IF p.state = "tstop" /\ p.waitable THEN "ret"
    ELSE "block"

\* The process after waitpid has returned its status: a zombie is reaped,
\* a stop is reported once.
Waited(p) ==
    IF p.state = "zombie" THEN [NoProc EXCEPT !.state = "gone"]
    ELSE [p EXCEPT !.waitable = FALSE]

\* A ptrace request that needs a stopped tracee (PTRACE_CONT, PTRACE_DETACH,
\* register access) succeeds exactly on a tracee of the caller in ptrace-stop.
PtraceStopped(p, q) == q = TargetPid /\ p.traced /\ p.state = "tstop"

\* kill(pid, sig) for SIGSTOP / SIGCONT: the signal is queued; SIGCONT also
\* resumes a group-stopped process and discards a queued SIGSTOP.
Signalled(p, q, sig) ==
    IF q # TargetPid \/ ~Alive(p) THEN p
    ELSE IF sig = SIGKILL THEN Die(p, KillStatus(SIGKILL))
    ELSE IF sig = SIGCONT /\ p.state = "gstop" THEN [p EXCEPT !.state = "running", !.pend = 0]
    ELSE IF sig = SIGCONT /\ ~p.traced THEN [p EXCEPT !.pend = 0]
    ELSE [p EXCEPT !.pend = sig]

----------------------------------------------------------------------------
(* struct Pipe *)

\* pipe2's flags: O_CLOEXEC in ipc.rs, 0 in lib.rs
PipeCloexec(v) == v = "split"

CloseReceiverPipe(pp) ==
    IF pp.read_fd # ClosedFd THEN [pp EXCEPT !.read_fd = ClosedFd] ELSE pp

CloseReceiverFds(pp, fds) ==
    IF pp.read_fd # ClosedFd THEN fds \ {pp.read_fd} ELSE fds

\* libc::close(fd) < 0: the descriptor is not open
CloseReceiverFails(pp, fds) == pp.read_fd # ClosedFd /\ pp.read_fd \notin fds

\* mutant: close_sender does not record that the descriptor is closed
CloseSenderPipeForgets(pp) == pp

CloseSenderPipe(pp) ==
    IF pp.write_fd # ClosedFd THEN [pp EXCEPT !.write_fd = ClosedFd] ELSE pp

CloseSenderFds(pp, fds) ==
    IF pp.write_fd # ClosedFd THEN fds \ {pp.write_fd} ELSE fds

CloseSenderFails(pp, fds) == pp.write_fd # ClosedFd /\ pp.write_fd \notin fds

\* mutant: Drop for Pipe closes the read end only
DropPipeFdsReceiverOnly(pp, fds) == CloseReceiverFds(pp, fds)

\* Drop for Pipe: close_receiver, then close_sender
DropPipeFds(pp, fds) == CloseSenderFds(pp, CloseReceiverFds(pp, fds))
DropPipePipe(pp) == CloseSenderPipe(CloseReceiverPipe(pp))

\* a close inside Drop for Pipe fails
DropPipeFails(pp, fds) ==
    \/ CloseReceiverFails(pp, fds)
    \/ CloseSenderFails(CloseReceiverPipe(pp), CloseReceiverFds(pp, fds))

\* Bookkeeping of the calls: rcalls / scalls count the calls of close_receiver
\* / close_sender, ros / sos the libc::close requests they issued.
NoCloses == [rcalls |-> 0, ros |-> 0, scalls |-> 0, sos |-> 0]

CloseReceiverCount(pp, c) ==
    [c EXCEPT !.rcalls = @ + 1,
              !.ros = IF pp.read_fd # ClosedFd THEN @ + 1 ELSE @]

CloseSenderCount(pp, c) ==
    [c EXCEPT !.scalls = @ + 1,
              !.sos = IF pp.write_fd # ClosedFd THEN @ + 1 ELSE @]

\* Drop for Pipe calls close_sender unless close_receiver has panicked
DropPipeCount(pp, fds, c) ==
    IF CloseReceiverFails(pp, fds)
    THEN CloseReceiverCount(pp, c)
    ELSE CloseSenderCount(CloseReceiverPipe(pp), CloseReceiverCount(pp, c))

\* read(2) on the read end returns: data is buffered, or no write end is open
ReadReady == buf # <<>> \/ WriteFd \notin (pfds \cup cfds)

Min(a, b) == IF a < b THEN a ELSE b

\* the bytes one read(2) of at most ReadCap bytes takes out of the pipe
ReadBytes(b) == SubSeq(b, 1, Min(Len(b), ReadCap))
ReadRest(b) == SubSeq(b, Min(Len(b), ReadCap) + 1, Len(b))

\* A String is the sequence of its UTF-8 bytes.  String::from_utf8_lossy
\* keeps every well-formed character and puts U+FFFD (EF BF BD) in place of
\* every other item: a byte that starts no character, or a lead byte with
\* the continuation bytes that follow it when they are too few.
Continuation(b, i) == i <= Len(b) /\ b[i] \in 128..191

\* the length of the character a byte announces, 0 if it announces none
Need(x) ==
    IF x < 128 THEN 1
    ELSE IF x \in 194..223 THEN 2
    ELSE IF x \in 224..239 THEN 3
    ELSE IF x \in 240..244 THEN 4
    ELSE 0

\* the bytes the item at position i takes
Span(b, i) ==
    1 + Cardinality({m \in 1..(Need(b[i]) - 1) : \A t \in 1..m : Continuation(b, i + t)})

\* position i is not taken by an item that starts before it
Starts(b, i) ==
    \A j \in 1..(i - 1) : j + Span(b, j) <= i \/ Need(b[j]) = 0

Piece(b, i) ==
    IF ~Starts(b, i) THEN <<>>
    ELSE IF Need(b[i]) > 0 /\ Span(b, i) = Need(b[i]) THEN SubSeq(b, i, i + Need(b[i]) - 1)
    ELSE <<239, 191, 189>>

RECURSIVE Pieces(_, _, _)
Pieces(b, lo, hi) ==
    IF lo > hi THEN <<>>
    ELSE IF lo = hi THEN Piece(b, lo)
    ELSE Pieces(b, lo, (lo + hi) \div 2) \o Pieces(b, (lo + hi) \div 2 + 1, hi)

Utf8Lossy(b) == Pieces(b, 1, Len(b))

\* Pipe::receive's result.  ipc.rs decodes the n bytes read; lib.rs reads into
\* the spare capacity of an empty String and returns it with its length 0.
ReceiveStr(v, b) == IF v = "split" THEN Utf8Lossy(ReadBytes(b)) ELSE <<>>

\* libc::read(self.read_fd, ..) < 0: the descriptor is not open
ReceiveFails(pp, fds) == pp.read_fd \notin fds

\* libc::write(self.write_fd, ..) < 0: the descriptor is not open, or nobody
\* holds the read end (EPIPE; the Rust runtime ignores SIGPIPE)
SendFails(pp, fds, readers) == pp.write_fd \notin fds \/ ReadFd \notin readers

\* The &str values the pipe client sends: 'a' repeated n times, then s.
Ascii(n) == [i \in 1..n |-> 97]

Messages ==
    { Ascii(0), Ascii(1), Ascii(ReadCap), Ascii(ReadCap + 1),
      Ascii(ReadCap - 2) \o <<195, 169>>, Ascii(ReadCap - 1) \o <<195, 169>> }

----------------------------------------------------------------------------
(* Initial states *)

AttachTargets ==
    { NoProc,
      [NoProc EXCEPT !.state = "running"],
      [NoProc EXCEPT !.state = "running", !.child = TRUE] }

Init ==
    /\ variant \in {"split", "lib"}
    /\ client \in {"cli", "api", "pipe"}
    /\ cmd \in {"Missing", "Attach", "Fork", "Pipe"}
    /\ client = "api" => (variant = "split" /\ cmd \in {"Attach", "Fork"})
    /\ (client = "pipe") <=> (cmd = "Pipe")
    /\ pc = "start"
    /\ handle = "none"
    /\ tracee = [pid |-> UnsetPid, status |-> Stopped]
    /\ pipe = [read_fd |-> ClosedFd, write_fd |-> ClosedFd]
    /\ pipeLive = FALSE
    /\ errStr = <<>>
    /\ received = FALSE
    /\ panicked = FALSE
    /\ why = "none"
    /\ exitCode = -2
    /\ teardowns = 0
    /\ tdlog = <<>>
    /\ nread = 0
    /\ ctorWaited = FALSE
    /\ pid = IF cmd = "Attach" THEN TargetPid ELSE UnsetPid
    /\ line = ""
    /\ sends = <<>>
    /\ closes = NoCloses
    /\ out = ""
    /\ proc \in (IF cmd = "Attach" THEN AttachTargets ELSE {NoProc})
    /\ childpc = IF proc.state = "running" THEN "target" ELSE "none"
    /\ pfds = {}
    /\ cfds = {}
    /\ buf = <<>>
    /\ execd = FALSE
    /\ sent = FALSE

\* panic!: the tracer starts unwinding
Raise(w) ==
    /\ panicked' = TRUE
    /\ why' = w
    /\ pc' = "unwind"

\* where control goes when a handle operation called by the client returns
AfterOp == IF client = "cli" THEN "prompt" ELSE "api"

----------------------------------------------------------------------------
(* cli.rs / lib.rs cli: Command::run *)

RunMissing ==
    /\ pc = "start" /\ cmd = "Missing"
    /\ pc' = "exited"
    /\ why' = "missing"
    /\ exitCode' = (-1) % 256
    /\ UNCHANGED <<variant, client, cmd, handle, tracee, pipe, pipeLive, errStr,
                   received, panicked, teardowns, tdlog, nread, ctorWaited, pid, line, sends, closes, out>>
    /\ UNCHANGED kernelVars

\* mutant: the result of the attach request is not looked at
AttachOkUnchecked(p, permitted) == TRUE

\* ptrace(PTRACE_ATTACH, pid) succeeds on a live process nobody traces that
\* the caller may trace; it makes the caller its tracer and sends it SIGSTOP.
AttachOk(p, permitted) == Alive(p) /\ ~p.traced /\ permitted

\* Tracee::from_pid up to the wait
FromPid ==
    /\ pc = "start" /\ cmd = "Attach" /\ variant = "split"
    /\ \E permitted \in BOOLEAN :
        IF AttachOk(proc, permitted)
        THEN /\ proc' = [proc EXCEPT !.traced = TRUE, !.pend = SIGSTOP]
             /\ tracee' = [pid |-> pid, status |-> Stopped]
             /\ handle' = "built"
             /\ pc' = "ctor_wait"
             /\ UNCHANGED <<panicked, why>>
        ELSE /\ Raise("attach")
             /\ UNCHANGED <<proc, tracee, handle>>
    /\ UNCHANGED <<variant, client, cmd, pipe, pipeLive, errStr, received,
                   exitCode, teardowns, tdlog, nread, ctorWaited, pid, line, sends, closes, out>>
    /\ UNCHANGED <<childpc, pfds, cfds, buf, execd, sent>>

\* lib.rs cli, Command::Attach: attach, then straight into run_session
LibAttach ==
    /\ pc = "start" /\ cmd = "Attach" /\ variant = "lib"
    /\ \E permitted \in BOOLEAN :
        IF AttachOk(proc, permitted)
        THEN /\ proc' = [proc EXCEPT !.traced = TRUE, !.pend = SIGSTOP]
             /\ pc' = "prompt"
             /\ UNCHANGED <<panicked, why>>
        ELSE /\ Raise("attach")
             /\ UNCHANGED proc
    /\ UNCHANGED <<variant, client, cmd, handle, tracee, pipe, pipeLive, errStr,
                   received, exitCode, teardowns, tdlog, nread, ctorWaited, pid, line, sends, closes, out>>
    /\ UNCHANGED <<childpc, pfds, cfds, buf, execd, sent>>

\* Pipe::new
PipeNew ==
    /\ pc = "start" /\ cmd \in {"Fork", "Pipe"}
    /\ \/ /\ pipe' = [read_fd |-> ReadFd, write_fd |-> WriteFd]
          /\ pfds' = {ReadFd, WriteFd}
          /\ pipeLive' = TRUE
          /\ pc' = IF client = "pipe" THEN "ptest" ELSE "fork"
          /\ UNCHANGED <<panicked, why>>
       \/ /\ Raise("pipe")
          /\ UNCHANGED <<pipe, pfds, pipeLive>>
    /\ UNCHANGED <<variant, client, cmd, handle, tracee, errStr, received,
                   exitCode, teardowns, tdlog, nread, ctorWaited, pid, line, sends, closes, out>>
    /\ UNCHANGED <<proc, childpc, cfds, buf, execd, sent>>

\* libc::fork(): the child gets copies of the descriptors, or fork returns -1
Fork ==
    /\ pc = "fork"
    /\ \/ /\ pid' = TargetPid
          /\ proc' = [NoProc EXCEPT !.state = "running", !.child = TRUE]
          /\ childpc' = "traceme"
          /\ cfds' = pfds
       \/ /\ pid' = ForkFailed
          /\ UNCHANGED <<proc, childpc, cfds>>
    /\ pc' = "close_sender"
    /\ UNCHANGED <<variant, client, cmd, handle, tracee, pipe, pipeLive, errStr,
                   received, panicked, why, exitCode, teardowns, tdlog, nread, ctorWaited, line, sends, closes, out>>
    /\ UNCHANGED <<pfds, buf, execd, sent>>

\* parent path: pipe.close_sender(), and in tracee.rs the Tracee value
CloseSender ==
    /\ pc = "close_sender"
    /\ IF CloseSenderFails(pipe, pfds)
       THEN /\ Raise("close")
            /\ UNCHANGED <<pipe, pfds, tracee, handle>>
       ELSE /\ pipe' = CloseSenderPipe(pipe)
            /\ pfds' = CloseSenderFds(pipe, pfds)
            /\ pc' = "receive"
            /\ IF variant = "split"
               THEN /\ tracee' = [pid |-> pid, status |-> Stopped]
                    /\ handle' = "built"
               ELSE UNCHANGED <<tracee, handle>>
            /\ UNCHANGED <<panicked, why>>
    /\ closes' = CloseSenderCount(pipe, closes)
    /\ UNCHANGED <<variant, client, cmd, pipeLive, errStr, received,
                   exitCode, teardowns, tdlog, nread, ctorWaited, pid, line, sends, out>>
    /\ UNCHANGED <<proc, childpc, cfds, buf, execd, sent>>

\* parent path: pipe.receive() and the test of err_str.len()
Receive ==
    /\ pc = "receive"
    /\ ReadReady
    /\ errStr' = ReceiveStr(variant, buf)
    /\ received' = TRUE
    /\ buf' = ReadRest(buf)
    /\ IF Len(errStr') > 0
       THEN IF variant = "split"
            THEN Raise("fork_and_trace")
            ELSE pc' = "lib_reap" /\ UNCHANGED <<panicked, why>>
       ELSE pc' = "ctor_wait" /\ UNCHANGED <<panicked, why>>
    /\ UNCHANGED <<variant, client, cmd, handle, tracee, pipe, pipeLive,
                   exitCode, teardowns, tdlog, nread, ctorWaited, pid, line, sends, closes, out>>
    /\ UNCHANGED <<proc, childpc, pfds, cfds, execd, sent>>

----------------------------------------------------------------------------
(* tracee.rs: Tracee::wait_on_signal, Tracee::resume *)

\* the status wait_on_signal stores for the wait status ws
DecodeStatus(ws) ==
    IF WIFSTOPPED(ws) THEN Stopped
    ELSE IF WIFEXITED(ws) THEN Exited
    ELSE IF WIFSIGNALED(ws) THEN Terminated
    ELSE "unexpected"

\* libc::waitpid(self.pid, ..) < 0
WaitFails(p, q) == WaitKind(p, q) = "echild"

WaitOnSignal ==
    /\ pc \in {"ctor_wait", "wait"} /\ variant = "split"
    /\ WaitKind(proc, tracee.pid) # "block"
    /\ IF WaitFails(proc, tracee.pid)
       THEN /\ Raise("wait")
            /\ UNCHANGED <<proc, tracee, ctorWaited>>
       ELSE /\ proc' = Waited(proc)
            /\ ctorWaited' = (ctorWaited \/ pc = "ctor_wait")
            /\ IF DecodeStatus(proc.ws) = "unexpected"
               THEN Raise("unexpected_wait_status") /\ UNCHANGED tracee
               ELSE /\ tracee' = [tracee EXCEPT !.status = DecodeStatus(proc.ws)]
                    /\ pc' = IF pc = "ctor_wait" THEN "ctor_ret" ELSE AfterOp
                    /\ UNCHANGED <<panicked, why>>
    /\ UNCHANGED <<variant, client, cmd, handle, pipe, pipeLive, errStr, received,
                   exitCode, teardowns, tdlog, nread, pid, line, sends, closes, out>>
    /\ UNCHANGED <<childpc, pfds, cfds, buf, execd, sent>>

\* from_pid / from_cmd return the handle; from_cmd's Pipe goes out of scope
CtorReturn ==
    /\ pc = "ctor_ret"
    /\ IF pipeLive /\ DropPipeFails(pipe, pfds)
       THEN /\ Raise("close")
            /\ UNCHANGED <<pipe, pfds, pipeLive, handle>>
       ELSE /\ pipe' = IF pipeLive THEN DropPipePipe(pipe) ELSE pipe
            /\ pfds' = IF pipeLive THEN DropPipeFds(pipe, pfds) ELSE pfds
            /\ pipeLive' = FALSE
            /\ handle' = "returned"
            /\ pc' = AfterOp
            /\ UNCHANGED <<panicked, why>>
    /\ closes' = IF pipeLive THEN DropPipeCount(pipe, pfds, closes) ELSE closes
    /\ UNCHANGED <<variant, client, cmd, tracee, errStr, received,
                   exitCode, teardowns, tdlog, nread, ctorWaited, pid, line, sends, out>>
    /\ UNCHANGED <<proc, childpc, cfds, buf, execd, sent>>

\* mutant: the result of the continue request is not looked at
ResumeFailsIgnored(p, q) == FALSE

\* libc::ptrace(PTRACE_CONT, self.pid, ..) < 0
ResumeFails(p, q) == ~PtraceStopped(p, q)

\* mutant: handle_command does not wait after the continue request
ResumeWithoutWait ==
    /\ pc = "resume" /\ variant = "split"
    /\ IF ResumeFails(proc, tracee.pid)
       THEN /\ Raise("continue")
            /\ UNCHANGED <<proc, tracee>>
       ELSE /\ proc' = [proc EXCEPT !.state = "running", !.waitable = FALSE]
            /\ tracee' = [tracee EXCEPT !.status = Running]
            /\ pc' = AfterOp
            /\ UNCHANGED <<panicked, why>>
    /\ UNCHANGED <<variant, client, cmd, handle, pipe, pipeLive, errStr, received,
                   exitCode, teardowns, tdlog, nread, ctorWaited, pid, line, sends, closes, out>>
    /\ UNCHANGED <<childpc, pfds, cfds, buf, execd, sent>>

\* mutant: resume leaves the status to the next wait_on_signal
ResumeKeepsStatus ==
    /\ pc = "resume" /\ variant = "split"
    /\ IF ResumeFails(proc, tracee.pid)
       THEN /\ Raise("continue")
            /\ UNCHANGED proc
       ELSE /\ proc' = [proc EXCEPT !.state = "running", !.waitable = FALSE]
            /\ pc' = IF client = "cli" THEN "wait" ELSE "api"
            /\ UNCHANGED <<panicked, why>>
    /\ UNCHANGED <<variant, client, cmd, handle, tracee, pipe, pipeLive, errStr, received,
                   exitCode, teardowns, tdlog, nread, ctorWaited, pid, line, sends, closes, out>>
    /\ UNCHANGED <<childpc, pfds, cfds, buf, execd, sent>>

\* mutant: a failed continue request is reported and the loop goes on
ResumeReportsFailure ==
    /\ pc = "resume" /\ variant = "split"
    /\ IF ResumeFails(proc, tracee.pid)
       THEN /\ why' = "continue"
            /\ pc' = AfterOp
            /\ UNCHANGED <<proc, tracee, panicked>>
       ELSE /\ proc' = [proc EXCEPT !.state = "running", !.waitable = FALSE]
            /\ tracee' = [tracee EXCEPT !.status = Running]
            /\ pc' = IF client = "cli" THEN "wait" ELSE "api"
            /\ UNCHANGED <<panicked, why>>
    /\ UNCHANGED <<variant, client, cmd, handle, pipe, pipeLive, errStr, received,
                   exitCode, teardowns, tdlog, nread, ctorWaited, pid, line, sends, closes, out>>
    /\ UNCHANGED <<childpc, pfds, cfds, buf, execd, sent>>

Resume ==
    /\ pc = "resume" /\ variant = "split"
    /\ IF ResumeFails(proc, tracee.pid)
       THEN /\ Raise("continue")
            /\ UNCHANGED <<proc, tracee>>
       ELSE /\ proc' = [proc EXCEPT !.state = "running", !.waitable = FALSE]
            /\ tracee' = [tracee EXCEPT !.status = Running]
            /\ pc' = IF client = "cli" THEN "wait" ELSE "api"
            /\ UNCHANGED <<panicked, why>>
    /\ UNCHANGED <<variant, client, cmd, handle, pipe, pipeLive, errStr, received,
                   exitCode, teardowns, tdlog, nread, ctorWaited, pid, line, sends, closes, out>>
    /\ UNCHANGED <<childpc, pfds, cfds, buf, execd, sent>>

\* register read / write through the tracing interface
RegAccess ==
    /\ pc = "regs" /\ variant = "split"
    /\ IF PtraceStopped(proc, tracee.pid)
       THEN pc' = "prompt" /\ UNCHANGED <<panicked, why>>
       ELSE Raise("regs")
    /\ UNCHANGED <<variant, client, cmd, handle, tracee, pipe, pipeLive, errStr,
                   received, exitCode, teardowns, tdlog, nread, ctorWaited, pid, line, sends, closes, out>>
    /\ UNCHANGED kernelVars

----------------------------------------------------------------------------
(* lib.rs: the same requests on a bare pid *)

\* waitpid in cli::Command::run (Fork) and in session::handle_command
LibWait ==
    /\ pc \in {"ctor_wait", "wait", "lib_reap"} /\ variant = "lib"
    /\ WaitKind(proc, pid) # "block"
    /\ IF WaitFails(proc, pid)
       THEN /\ Raise("wait")
            /\ UNCHANGED <<proc, ctorWaited>>
       ELSE /\ proc' = Waited(proc)
            /\ ctorWaited' = (ctorWaited \/ pc # "wait")
            /\ IF pc = "lib_reap"
               THEN Raise("fork_and_trace")
               ELSE pc' = "prompt" /\ UNCHANGED <<panicked, why>>
    /\ UNCHANGED <<variant, client, cmd, handle, tracee, pipe, pipeLive, errStr,
                   received, exitCode, teardowns, tdlog, nread, pid, line, sends, closes, out>>
    /\ UNCHANGED <<childpc, pfds, cfds, buf, execd, sent>>

\* session::handle_command "continue": ptrace(PTRACE_CONT, pid, ..)
LibContinue ==
    /\ pc = "resume" /\ variant = "lib"
    /\ IF ResumeFails(proc, pid)
       THEN Raise("continue") /\ UNCHANGED proc
       ELSE /\ proc' = [proc EXCEPT !.state = "running", !.waitable = FALSE]
            /\ pc' = "wait"
            /\ UNCHANGED <<panicked, why>>
    /\ UNCHANGED <<variant, client, cmd, handle, tracee, pipe, pipeLive, errStr,
                   received, exitCode, teardowns, tdlog, nread, ctorWaited, pid, line, sends, closes, out>>
    /\ UNCHANGED <<childpc, pfds, cfds, buf, execd, sent>>

----------------------------------------------------------------------------
(* session.rs / lib.rs session: run_session, handle_command *)

\* the lines handle_command has a match arm for
RecognizedLines(v) ==
    IF v = "split" THEN {"continue", "readgp", "writegp", "readfp", "writefp"}
    ELSE {"continue"}

\* what run_session and handle_command print on standard output for an input
\* line, o if nothing
Printed(v, l, o) ==
    IF l = "<err>" THEN "failed to read line from stdin"
    ELSE IF l \notin RecognizedLines(v) THEN "unexpected command"
    ELSE o

\* mutant: the catch-all arm of handle_command resumes the tracee
DispatchResumesByDefault(v, l) ==
    IF v = "split" /\ l \in {"readgp", "writegp", "readfp", "writefp"} THEN "regs"
    ELSE IF l = "<err>" THEN "prompt"
    ELSE "resume"

\* where handle_command sends an input line ("<err>" is a failed read)
Dispatch(v, l) ==
    IF l = "continue" THEN "resume"
    ELSE IF v = "split" /\ l \in {"readgp", "writegp", "readfp", "writefp"} THEN "regs"
    ELSE "prompt"

ReadLine ==
    /\ pc = "prompt" /\ nread < MaxLines
    /\ \E l \in Lines \cup {"<err>"} :
         /\ line' = l
         /\ pc' = Dispatch(variant, l)
         /\ out' = Printed(variant, l, out)
    /\ nread' = nread + 1
    /\ UNCHANGED <<variant, client, cmd, handle, tracee, pipe, pipeLive, errStr,
                   received, panicked, why, exitCode, teardowns, tdlog, ctorWaited, pid,
                   sends, closes>>
    /\ UNCHANGED kernelVars

\* mutant: at the end of input the process exits on the spot, so that no
\* destructor runs
SessionEndExits ==
    /\ pc = "prompt"
    /\ pc' = "exited"
    /\ why' = "session_end"
    /\ exitCode' = 0
    /\ UNCHANGED <<variant, client, cmd, handle, tracee, pipe, pipeLive, errStr, received,
                   panicked, teardowns, tdlog, nread, ctorWaited, pid, line, sends, closes, out>>
    /\ UNCHANGED kernelVars

\* End of input: run_session returns.  cli.rs continues into unreachable!;
\* lib.rs leaves the match arm (dropping the Pipe), returns 0 and main exits.
SessionEnd ==
    /\ pc = "prompt"
    /\ IF variant = "split"
       THEN /\ Raise("session_end")
            /\ UNCHANGED <<exitCode, pipe, pfds, pipeLive, closes>>
       ELSE /\ pc' = "exited"
            /\ why' = "session_end"
            /\ exitCode' = 0
            /\ pipe' = IF pipeLive THEN DropPipePipe(pipe) ELSE pipe
            /\ pfds' = IF pipeLive THEN DropPipeFds(pipe, pfds) ELSE pfds
            /\ pipeLive' = FALSE
            /\ closes' = IF pipeLive THEN DropPipeCount(pipe, pfds, closes) ELSE closes
            /\ UNCHANGED panicked
    /\ UNCHANGED <<variant, client, cmd, handle, tracee, errStr, received,
                   teardowns, tdlog, nread, ctorWaited, pid, line, sends, out>>
    /\ UNCHANGED <<proc, childpc, cfds, buf, execd, sent>>

\* the tests' use of a Pipe: pipe.send(message), once
PipeSend ==
    /\ pc = "ptest" /\ sends = <<>>
    /\ \E m \in Messages :
         /\ sends' = <<m>>
         /\ IF SendFails(pipe, pfds, pfds \cup cfds)
            THEN Raise("write") /\ UNCHANGED buf
            ELSE buf' = buf \o m /\ UNCHANGED <<pc, panicked, why>>
    /\ UNCHANGED <<variant, client, cmd, handle, tracee, pipe, pipeLive, errStr, received,
                   exitCode, teardowns, tdlog, nread, ctorWaited, pid, line, closes, out>>
    /\ UNCHANGED <<proc, childpc, pfds, cfds, execd, sent>>

\* the tests' use of a Pipe: pipe.receive(), once
PipeReceive ==
    /\ pc = "ptest" /\ ~received
    /\ IF ReceiveFails(pipe, pfds)
       THEN /\ Raise("read")
            /\ UNCHANGED <<errStr, received, buf>>
       ELSE /\ ReadReady
            /\ errStr' = ReceiveStr(variant, buf)
            /\ received' = TRUE
            /\ buf' = ReadRest(buf)
            /\ UNCHANGED <<pc, panicked, why>>
    /\ UNCHANGED <<variant, client, cmd, handle, tracee, pipe, pipeLive,
                   exitCode, teardowns, tdlog, nread, ctorWaited, pid, line, sends, closes, out>>
    /\ UNCHANGED <<proc, childpc, pfds, cfds, execd, sent>>

\* the tests' use of a Pipe: pipe.close_receiver()
PipeCloseReceiver ==
    /\ pc = "ptest" /\ closes.rcalls + closes.scalls < MaxCloses
    /\ IF CloseReceiverFails(pipe, pfds)
       THEN /\ Raise("close")
            /\ UNCHANGED <<pipe, pfds>>
       ELSE /\ pipe' = CloseReceiverPipe(pipe)
            /\ pfds' = CloseReceiverFds(pipe, pfds)
            /\ UNCHANGED <<pc, panicked, why>>
    /\ closes' = CloseReceiverCount(pipe, closes)
    /\ UNCHANGED <<variant, client, cmd, handle, tracee, pipeLive, errStr, received,
                   exitCode, teardowns, tdlog, nread, ctorWaited, pid, line, sends, out>>
    /\ UNCHANGED <<proc, childpc, cfds, buf, execd, sent>>

\* the tests' use of a Pipe: pipe.close_sender()
PipeCloseSender ==
    /\ pc = "ptest" /\ closes.rcalls + closes.scalls < MaxCloses
    /\ IF CloseSenderFails(pipe, pfds)
       THEN /\ Raise("close")
            /\ UNCHANGED <<pipe, pfds>>
       ELSE /\ pipe' = CloseSenderPipe(pipe)
            /\ pfds' = CloseSenderFds(pipe, pfds)
            /\ UNCHANGED <<pc, panicked, why>>
    /\ closes' = CloseSenderCount(pipe, closes)
    /\ UNCHANGED <<variant, client, cmd, handle, tracee, pipeLive, errStr, received,
                   exitCode, teardowns, tdlog, nread, ctorWaited, pid, line, sends, out>>
    /\ UNCHANGED <<proc, childpc, cfds, buf, execd, sent>>

\* the end of the test function: the Pipe goes out of scope
PipeScopeEnd ==
    /\ pc = "ptest"
    /\ pc' = "unwind"
    /\ UNCHANGED <<variant, client, cmd, handle, tracee, pipe, pipeLive, errStr, received,
                   panicked, why, exitCode, teardowns, tdlog, nread, ctorWaited, pid,
                   line, sends, closes, out>>
    /\ UNCHANGED kernelVars

\* the tests' use of a handle: any operation next, or the end of its scope
ApiCall ==
    /\ pc = "api"
    /\ \E op \in {"resume", "wait", "unwind"} : pc' = op
    /\ UNCHANGED <<variant, client, cmd, handle, tracee, pipe, pipeLive, errStr, received,
                   panicked, why, exitCode, teardowns, tdlog, nread, ctorWaited, pid, line, sends, closes, out>>
    /\ UNCHANGED kernelVars

----------------------------------------------------------------------------
(* tracee.rs: Drop for Tracee.  It runs when the handle goes out of scope: *)
(* while a panic unwinds, or at the end of the api client's scope.         *)

HandleLive == handle \in {"built", "returned"}

\* drop() up to the first blocking call
DropBegin ==
    /\ pc = "unwind" /\ HandleLive
    /\ teardowns' = teardowns + 1
    /\ IF tracee.pid = UnsetPid
       THEN /\ handle' = "dropped"
            /\ UNCHANGED <<pc, proc, cfds, tdlog>>
       ELSE IF tracee.status = Running
       THEN /\ proc' = Signalled(proc, tracee.pid, SIGSTOP)
            /\ tdlog' = Append(tdlog, "kill_stop")
            /\ pc' = "d_wait1"
            /\ UNCHANGED <<handle, cfds>>
       ELSE /\ pc' = "d_detach"
            /\ UNCHANGED <<handle, proc, cfds, tdlog>>
    /\ UNCHANGED <<variant, client, cmd, tracee, pipe, pipeLive, errStr, received,
                   panicked, why, exitCode, nread, ctorWaited, pid, line, sends, closes, out>>
    /\ UNCHANGED <<childpc, pfds, buf, execd, sent>>

\* libc::waitpid after the SIGSTOP; its result is not looked at
DropWait1 ==
    /\ pc = "d_wait1"
    /\ WaitKind(proc, tracee.pid) # "block"
    /\ proc' = IF WaitKind(proc, tracee.pid) = "ret" THEN Waited(proc) ELSE proc
    /\ tdlog' = Append(tdlog, "wait")
    /\ pc' = "d_detach"
    /\ UNCHANGED <<variant, client, cmd, handle, tracee, pipe, pipeLive, errStr, received,
                   panicked, why, exitCode, teardowns, nread, ctorWaited, pid, line, sends, closes, out>>
    /\ UNCHANGED <<childpc, pfds, cfds, buf, execd, sent>>

\* libc::ptrace(PTRACE_DETACH, self.pid); its result is not looked at
DropDetach ==
    /\ pc = "d_detach"
    /\ proc' = IF PtraceStopped(proc, tracee.pid)
               THEN [proc EXCEPT !.traced = FALSE, !.state = "running", !.waitable = FALSE]
               ELSE proc
    /\ tdlog' = Append(tdlog, "detach")
    /\ pc' = "d_cont"
    /\ UNCHANGED <<variant, client, cmd, handle, tracee, pipe, pipeLive, errStr, received,
                   panicked, why, exitCode, teardowns, nread, ctorWaited, pid, line, sends, closes, out>>
    /\ UNCHANGED <<childpc, pfds, cfds, buf, execd, sent>>

\* mutant: the kill signal is sent where the continue signal belongs
DropContSendsKill ==
    /\ pc = "d_cont"
    /\ proc' = Signalled(proc, tracee.pid, SIGKILL)
    /\ cfds' = IF tracee.pid = TargetPid /\ Alive(proc) THEN {} ELSE cfds
    /\ childpc' = IF tracee.pid = TargetPid /\ Alive(proc) THEN "dead" ELSE childpc
    /\ tdlog' = Append(tdlog, "kill_kill")
    /\ pc' = "d_kill"
    /\ UNCHANGED <<variant, client, cmd, handle, tracee, pipe, pipeLive, errStr, received,
                   panicked, why, exitCode, teardowns, nread, ctorWaited, pid, line, sends, closes, out>>
    /\ UNCHANGED <<pfds, buf, execd, sent>>

\* libc::kill(self.pid, SIGCONT)
DropCont ==
    /\ pc = "d_cont"
    /\ proc' = Signalled(proc, tracee.pid, SIGCONT)
    /\ tdlog' = Append(tdlog, "kill_cont")
    /\ pc' = "d_kill"
    /\ UNCHANGED <<variant, client, cmd, handle, tracee, pipe, pipeLive, errStr, received,
                   panicked, why, exitCode, teardowns, nread, ctorWaited, pid, line, sends, closes, out>>
    /\ UNCHANGED <<childpc, pfds, cfds, buf, execd, sent>>

\* libc::kill(self.pid, SIGKILL)
DropKill ==
    /\ pc = "d_kill"
    /\ proc' = Signalled(proc, tracee.pid, SIGKILL)
    /\ cfds' = IF tracee.pid = TargetPid /\ Alive(proc) THEN {} ELSE cfds
    /\ childpc' = IF tracee.pid = TargetPid /\ Alive(proc) THEN "dead" ELSE childpc
    /\ tdlog' = Append(tdlog, "kill_kill")
    /\ pc' = "d_wait2"
    /\ UNCHANGED <<variant, client, cmd, handle, tracee, pipe, pipeLive, errStr, received,
                   panicked, why, exitCode, teardowns, nread, ctorWaited, pid, line, sends, closes, out>>
    /\ UNCHANGED <<pfds, buf, execd, sent>>

\* mutant: drop() returns without the final waitpid
DropWait2NoReap ==
    /\ pc = "d_wait2"
    /\ handle' = "dropped"
    /\ pc' = "unwind"
    /\ UNCHANGED <<variant, client, cmd, tracee, pipe, pipeLive, errStr, received,
                   panicked, why, exitCode, teardowns, tdlog, nread, ctorWaited, pid, line, sends, closes, out>>
    /\ UNCHANGED kernelVars

\* the final libc::waitpid; drop() returns
DropWait2 ==
    /\ pc = "d_wait2"
    /\ WaitKind(proc, tracee.pid) # "block"
    /\ proc' = IF WaitKind(proc, tracee.pid) = "ret" THEN Waited(proc) ELSE proc
    /\ tdlog' = Append(tdlog, "wait")
    /\ handle' = "dropped"
    /\ pc' = "unwind"
    /\ UNCHANGED <<variant, client, cmd, tracee, pipe, pipeLive, errStr, received,
                   panicked, why, exitCode, teardowns, nread, ctorWaited, pid, line, sends, closes, out>>
    /\ UNCHANGED <<childpc, pfds, cfds, buf, execd, sent>>

\* ipc.rs / lib.rs: Drop for Pipe when the Pipe's scope ends, by a panic or
\* by the end of the pipe client.  A close that fails panics in turn.
DropPipe ==
    /\ pc = "unwind" /\ ~HandleLive /\ pipeLive
    /\ IF DropPipeFails(pipe, pfds)
       THEN /\ panicked' = TRUE
            /\ why' = "close"
            /\ UNCHANGED <<pipe, pfds>>
       ELSE /\ pipe' = DropPipePipe(pipe)
            /\ pfds' = DropPipeFds(pipe, pfds)
            /\ UNCHANGED <<panicked, why>>
    /\ closes' = DropPipeCount(pipe, pfds, closes)
    /\ pipeLive' = FALSE
    /\ UNCHANGED <<variant, client, cmd, pc, handle, tracee, errStr, received,
                   exitCode, teardowns, tdlog, nread, ctorWaited, pid, line, sends, out>>
    /\ UNCHANGED <<proc, childpc, cfds, buf, execd, sent>>

\* the process ends: status 101 after a panic, 0 when the client's scope ended
ProcessExit ==
    /\ pc = "unwind" /\ ~HandleLive /\ ~pipeLive
    /\ exitCode' = IF panicked THEN PanicCode ELSE 0
    /\ pc' = "exited"
    /\ UNCHANGED <<variant, client, cmd, handle, tracee, pipe, pipeLive, errStr, received,
                   panicked, why, teardowns, tdlog, nread, ctorWaited, pid, line, sends, closes, out>>
    /\ UNCHANGED kernelVars

----------------------------------------------------------------------------
(* The forked child, from fork() to exec or exit *)

ChildRuns == proc.state = "running"

\* libc::ptrace(PTRACE_TRACEME)
ChildTraceMe ==
    /\ childpc = "traceme" /\ ChildRuns
    /\ \/ /\ proc' = [proc EXCEPT !.traced = TRUE]
          /\ childpc' = IF variant = "split" THEN "cstr" ELSE "exec"
       \/ /\ childpc' = "send_t"
          /\ UNCHANGED proc
    /\ UNCHANGED tracerVars
    /\ UNCHANGED <<pfds, cfds, buf, execd, sent>>

\* CString::new(program).unwrap() and the argument vector: a NUL byte in
\* program or in an argument panics the child.  The words of a command line
\* hold no NUL byte; a caller of from_cmd can pass one.
ChildCString ==
    /\ childpc = "cstr" /\ ChildRuns
    /\ \E nul \in (IF client = "api" THEN BOOLEAN ELSE {FALSE}) :
         childpc' = IF nul THEN "panic" ELSE "exec"
    /\ UNCHANGED tracerVars
    /\ UNCHANGED <<proc, pfds, cfds, buf, execd, sent>>

\* libc::execvp: the image is replaced (close-on-exec descriptors close and a
\* traced process stops with SIGTRAP), or it returns -1.  The argument
\* pointers handed to execvp dangle (tracee.rs:59-62 takes as_ptr of a CString
\* dropped at the end of the closure; lib.rs:243-248 passes unterminated
\* strings): whatever they point to, execvp replaces the image or returns -1,
\* and a fault of the child is a signal (TargetSignal, ExternalKill).
ChildExec ==
    /\ childpc = "exec" /\ ChildRuns
    /\ \/ /\ childpc' = "image"
          /\ execd' = TRUE
          /\ cfds' = IF PipeCloexec(variant) THEN {} ELSE cfds
          /\ proc' = IF proc.traced
                     THEN [proc EXCEPT !.state = "tstop", !.waitable = TRUE,
                                       !.ws = StopStatus(SIGTRAP)]
                     ELSE proc
       \/ /\ childpc' = "send_e"
          /\ UNCHANGED <<proc, cfds, execd>>
    /\ UNCHANGED tracerVars
    /\ UNCHANGED <<pfds, buf, sent>>

\* pipe.send(message).  tracee.rs exits after either send; lib.rs exits after
\* the first and runs into unreachable! after the second.  The message text
\* is built from CString::from_raw(strerror(..)), a pointer CString does not
\* own; the value is never dropped before exit, and a fault of the child is
\* again a signal (TargetSignal, ExternalKill).
ChildSend ==
    /\ childpc \in {"send_t", "send_e"} /\ ChildRuns
    /\ buf' = buf \o (IF childpc = "send_t" THEN MsgTraceme ELSE MsgExec)
    /\ childpc' = IF childpc = "send_e" /\ variant = "lib" THEN "panic" ELSE "exit"
    /\ sent' = TRUE
    /\ UNCHANGED tracerVars
    /\ UNCHANGED <<proc, pfds, cfds, execd>>

\* exit(-1)
ChildExit ==
    /\ childpc = "exit" /\ ChildRuns
    /\ proc' = Die(proc, ExitStatus(-1))
    /\ cfds' = {}
    /\ childpc' = "dead"
    /\ UNCHANGED tracerVars
    /\ UNCHANGED <<pfds, buf, execd, sent>>

\* a panic in the child unwinds the child's copy of the tracer and ends it
ChildPanic ==
    /\ childpc = "panic" /\ ChildRuns
    /\ proc' = Die(proc, ExitStatus(PanicCode))
    /\ cfds' = {}
    /\ childpc' = "dead"
    /\ UNCHANGED tracerVars
    /\ UNCHANGED <<pfds, buf, execd, sent>>

----------------------------------------------------------------------------
(* The target program and the rest of the system *)

\* the target program ends by itself
TargetExit ==
    /\ childpc \in {"image", "target"} /\ proc.state = "running"
    /\ \E code \in {0, 1} : proc' = Die(proc, ExitStatus(code))
    /\ cfds' = {}
    /\ childpc' = "dead"
    /\ UNCHANGED tracerVars
    /\ UNCHANGED <<pfds, buf, execd, sent>>

\* a signal of its own (a fault, a signal from a third process) reaches a
\* traced running process: signal-delivery-stop
TargetSignal ==
    /\ proc.state = "running" /\ proc.traced
    /\ proc' = [proc EXCEPT !.state = "tstop", !.waitable = TRUE, !.ws = StopStatus(SIGUSR1)]
    /\ UNCHANGED tracerVars
    /\ UNCHANGED <<childpc, pfds, cfds, buf, execd, sent>>

\* the kernel delivers the queued SIGSTOP / SIGCONT
DeliverPending ==
    /\ proc.state = "running" /\ proc.pend # 0
    /\ proc' = IF proc.traced
               THEN [proc EXCEPT !.state = "tstop", !.waitable = TRUE,
                                 !.ws = StopStatus(proc.pend), !.pend = 0]
               ELSE IF proc.pend = SIGSTOP
               THEN [proc EXCEPT !.state = "gstop", !.pend = 0]
               ELSE [proc EXCEPT !.pend = 0]
    /\ UNCHANGED tracerVars
    /\ UNCHANGED <<childpc, pfds, cfds, buf, execd, sent>>

\* a third process kills the target
ExternalKill ==
    /\ Alive(proc)
    /\ proc' = Die(proc, KillStatus(SIGKILL))
    /\ cfds' = {}
    /\ childpc' = "dead"
    /\ UNCHANGED tracerVars
    /\ UNCHANGED <<pfds, buf, execd, sent>>

----------------------------------------------------------------------------

TracerNext ==
    \/ RunMissing \/ FromPid \/ LibAttach \/ PipeNew \/ Fork \/ CloseSender
    \/ Receive \/ WaitOnSignal \/ CtorReturn \/ Resume \/ RegAccess
    \/ LibWait \/ LibContinue \/ ReadLine \/ SessionEnd \/ ApiCall
    \/ PipeSend \/ PipeReceive \/ PipeCloseReceiver \/ PipeCloseSender \/ PipeScopeEnd
    \/ DropBegin \/ DropWait1 \/ DropDetach \/ DropCont \/ DropKill \/ DropWait2
    \/ DropPipe \/ ProcessExit

ChildNext ==
    \/ ChildTraceMe \/ ChildCString \/ ChildExec \/ ChildSend \/ ChildExit \/ ChildPanic

EnvNext ==
    \/ TargetExit \/ TargetSignal \/ DeliverPending \/ ExternalKill

Next == TracerNext \/ ChildNext \/ EnvNext

Spec == Init /\ [][Next]_vars

\* The tracer is one sequential thread that takes its next step whenever that
\* step can return; the kernel delivers a queued signal to a running process.
FairSpec == Spec /\ WF_vars(TracerNext) /\ WF_vars(DeliverPending)

----------------------------------------------------------------------------
(* Claims *)

\* the session (or the api client) has the result of attach / spawn in hand
InSession == pc \in {"prompt", "resume", "wait", "regs", "api"}

\* C1: every handle that Tracee::from_cmd returns has status Stopped at the
\* moment it is returned, whatever the blocking wait observed for the child.
C1_SpawnReturnsStopped ==
    (cmd = "Fork" /\ pc = "ctor_ret") => tracee.status = Stopped

\* C2: after a successful trace-attach request, attach performs a blocking
\* wait before it returns, and every handle it returns has status Stopped.
C2_AttachWaitsThenStopped ==
    /\ (cmd = "Attach" /\ pc = "ctor_ret") => tracee.status = Stopped
    /\ (cmd = "Attach" /\ InSession) => ctorWaited

\* C3: when the child reported a failure over the channel, the spawn error is
\* raised only after the child has been reaped: from the moment the error is
\* raised the child is not in the process table, and no handle is returned.
C3_ReapBeforeRaise ==
    why = "fork_and_trace" => (proc.state = "gone" /\ handle # "returned")

\* C4: with a forked child, the parent's channel read is empty exactly when
\* the child has replaced its image by exec, non-empty exactly when the child
\* has written its failure message, and only an empty read lets the parent go
\* on to track the child.
C4_EmptyIffExec ==
    (received /\ pid = TargetPid) =>
        /\ (errStr = <<>>) <=> execd
        /\ (errStr # <<>>) <=> sent
        /\ (errStr # <<>>) => ~(pc \in {"ctor_wait", "ctor_ret"} \/ InSession)

\* C5: the spawn handshake does not deadlock: the parent's blocking read can
\* return once the child has exec'ed, and once the child has failed and exited.
C5_ReadReturns ==
    (pc = "receive" /\ pid = TargetPid) =>
        /\ execd => ReadReady
        /\ (sent /\ proc.state \in {"zombie", "gone"}) => ReadReady

\* C6: resume on a handle whose status is not Stopped fails, and leaves the
\* status as it was.
C6_ResumeNeedsStopped ==
    [][ (pc = "resume" /\ variant = "split" /\ tracee.status # Stopped /\ pc' # pc)
            => (panicked' /\ tracee'.status = tracee.status) ]_vars

HandleDead == handle # "none" /\ tracee.status \in {Exited, Terminated}

\* C7: Exited and Terminated are absorbing: once the status is Exited or
\* Terminated it never changes again, a wait_on_signal on the handle fails at
\* once instead of blocking, and every resume or wait_on_signal fails.
C7_Absorbing ==
    /\ [](HandleDead => WaitKind(proc, tracee.pid) = "echild")
    /\ [][HandleDead => tracee'.status = tracee.status]_vars
    /\ [][(HandleDead /\ pc \in {"resume", "wait"} /\ pc' # pc)
              => (panicked' /\ pc' = "unwind")]_vars

\* a resume on an exited handle has failed
C7_Witness ==
    /\ handle # "none" /\ tracee.status = Exited
    /\ panicked /\ why = "continue"

\* C8: teardown runs exactly once on every path that ends the session after a
\* handle was constructed.
C8_TeardownOnce ==
    /\ teardowns <= 1
    /\ handle = "dropped" => teardowns = 1
    /\ (pc = "exited" /\ handle # "none") => (handle = "dropped" /\ teardowns = 1)

\* the program has ended after the end of input, with the teardown done
C8_Witness ==
    /\ pc = "exited" /\ why = "session_end" /\ variant = "split"
    /\ handle = "dropped" /\ teardowns = 1

TeardownRunning == pc \in {"d_wait1", "d_detach", "d_cont", "d_kill", "d_wait2"}

\* C9: teardown always terminates, and when it has finished the traced
\* process is neither attached to the tracer nor a zombie the tracer has yet
\* to reap.
C9_TeardownEnds ==
    /\ []((handle = "dropped" /\ tracee.pid = TargetPid)
             => (~(Alive(proc) /\ proc.traced) /\ proc.state # "zombie"))
    /\ (TeardownRunning ~> handle = "dropped")

\* a teardown that started from status Running has finished
C9_Witness ==
    /\ handle = "dropped" /\ tracee.status = Running
    /\ Len(tdlog) = 6

\* C10: when the input is exhausted after an attach or spawn session, the
\* program ends with process exit status 0.
C10_ExitZero ==
    (pc = "exited" /\ why = "session_end") => exitCode = 0

\* C11: an attach whose trace-attach request fails (no such process, or no
\* permission) fails without constructing a handle: no wait has returned, no
\* teardown request has been issued, nothing was sent to or changed on the
\* target, and the tracer only unwinds and exits.  With no process behind the
\* pid the attach never gets past its start.
C11_FailedAttachNoHandle ==
    /\ why = "attach" =>
          /\ handle = "none" /\ teardowns = 0 /\ tdlog = <<>> /\ ~ctorWaited
          /\ pc \in {"unwind", "exited"}
          /\ ~proc.traced /\ proc.pend = 0
    /\ (cmd = "Attach" /\ proc.state = "none") =>
          /\ handle = "none" /\ why \in {"none", "attach"}
          /\ pc \in {"start", "unwind", "exited"}

\* an attach to a pid with no process behind it has failed and the tracer
\* has exited
C11_Witness ==
    /\ cmd = "Attach" /\ proc.state = "none"
    /\ why = "attach" /\ pc = "exited" /\ exitCode = PanicCode

Sign(n) == IF n > 0 THEN 1 ELSE 0

\* C12: close_receiver and close_sender are idempotent: no close ever fails,
\* and however many times an endpoint's close has been called (explicitly or
\* by Drop for Pipe), libc::close was issued for it exactly once, by the
\* first call.
C12_CloseIdempotent ==
    /\ why # "close"
    /\ closes.ros = Sign(closes.rcalls)
    /\ closes.sos = Sign(closes.scalls)

\* both closes were called more than once and the program ended normally
C12_Witness ==
    /\ client = "pipe" /\ pc = "exited" /\ ~panicked
    /\ closes.rcalls >= 2 /\ closes.scalls >= 2

\* a command of the loop has failed with an error from the OS
CommandFailed ==
    /\ client = "cli" /\ nread > 0
    /\ why \in {"continue", "wait", "regs", "unexpected_wait_status"}

\* C13: when a recognized command fails with an OS-level error, the whole
\* program ends: the tracer only unwinds and exits, and no further input line
\* is read or executed.
C13_FailedCommandIsFatal ==
    /\ [](CommandFailed => (panicked /\ (pc \in {"unwind", "exited"} \/ TeardownRunning)))
    /\ [][CommandFailed => (nread' = nread /\ line' = line)]_vars
    /\ (CommandFailed ~> pc = "exited")

\* a continue has failed on an exited tracee and the program has ended with
\* input left to read
C13_Witness ==
    /\ client = "cli" /\ variant = "split" /\ why = "continue" /\ pc = "exited"
    /\ tracee.status = Exited /\ nread < MaxLines

\* C14: an input line that is not a recognized command only prints
\* `unexpected command`: no operation on the handle is issued, the handle's
\* pid and status and the traced process are left as they were, and the loop
\* is back at its prompt.
C14_UnrecognizedOnlyPrints ==
    [][ (pc = "prompt" /\ nread' = nread + 1
            /\ line' \notin ({"continue", "readgp", "writegp", "readfp", "writefp", "<err>"}))
          => /\ out' = "unexpected command"
             /\ pc' = "prompt"
             /\ UNCHANGED <<tracee, handle, pid, proc, panicked, why, tdlog, teardowns>> ]_vars

\* an unrecognized line was read and the loop is at its prompt again
C14_Witness ==
    /\ pc = "prompt" /\ nread = 1 /\ line = "bogus" /\ out = "unexpected command"
    /\ variant = "split" /\ handle = "returned"

\* C15: for every message of at most 128 bytes, a send of the message
\* followed by a receive on the same channel returns exactly the message, and
\* the spawn error carries one of the child's failure messages as written.
C15_SendReceiveRoundTrip ==
    /\ (client = "pipe" /\ received /\ Len(sends) = 1 /\ why # "write"
            /\ Len(sends[1]) <= ReadCap)
          => errStr = sends[1]
    /\ (sent /\ received) => errStr \in {MsgTraceme, MsgExec}

\* the requests of a whole teardown from status st
TeardownSteps(st) ==
    IF st = Running
    THEN <<"kill_stop", "wait", "detach", "kill_cont", "kill_kill", "wait">>
    ELSE <<"detach", "kill_cont", "kill_kill", "wait">>

IsPrefix(a, b) == Len(a) <= Len(b) /\ SubSeq(b, 1, Len(a)) = a

\* C16: the teardown of a handle with a real pid issues its requests in this
\* order: from status Running the stop signal and a blocking wait, then in
\* every case the detach request, the continue signal, the kill signal and
\* the final blocking wait.
C16_TeardownOrder ==
    /\ (handle # "none" /\ tracee.pid # UnsetPid)
          => IsPrefix(tdlog, TeardownSteps(tracee.status))
    /\ (handle = "dropped" /\ tracee.pid # UnsetPid)
          => tdlog = TeardownSteps(tracee.status)

\* a teardown from status Stopped has finished: four requests, no stop signal
C16_Witness ==
    /\ handle = "dropped" /\ tracee.pid = TargetPid /\ tracee.status = Stopped
    /\ tdlog = <<"detach", "kill_cont", "kill_kill", "wait">>

\* C17: in teardown the detach request is never issued while the tracee is
\* running: at the step that issues it, the process is stopped or gone.
C17_DetachNotWhileRunning ==
    [][ (pc = "d_detach" /\ pc' = "d_cont" /\ tracee.pid = TargetPid)
            => proc.state # "running" ]_vars

\* C18: in the command loop a resume is followed at once by wait_on_signal,
\* so that where the loop reads or dispatches a command the handle's status
\* is never Running.
C18_LoopNeverSeesRunning ==
    /\ []((client = "cli" /\ variant = "split" /\ pc \in {"prompt", "resume", "regs"})
             => tracee.status # Running)
    /\ [][(client = "cli" /\ variant = "split" /\ pc = "resume" /\ pc' # pc /\ ~panicked')
             => pc' = "wait"]_vars
    /\ [][(client = "cli" /\ variant = "split" /\ pc = "wait" /\ pc' # pc /\ ~panicked')
             => (pc' = "prompt" /\ tracee'.status # Running)]_vars

\* the loop is back at its prompt after a continue that ended in a stop
C18_Witness ==
    /\ client = "cli" /\ variant = "split" /\ pc = "prompt"
    /\ line = "continue" /\ tracee.status = Stopped /\ proc.state = "tstop"

\* C19: a resume that succeeds on a Stopped handle sets the status to Running
\* and returns with the tracee running, without waiting for it; the status
\* then stays Running until a wait_on_signal changes it.
C19_ResumeSetsRunning ==
    /\ [][(variant = "split" /\ pc = "resume" /\ tracee.status = Stopped
                /\ pc' # pc /\ ~panicked')
             => (tracee'.status = Running /\ proc'.state = "running"
                 /\ pc' \in {"wait", "api"})]_vars
    /\ [][(variant = "split" /\ tracee.status = Running /\ tracee'.status # Running)
             => (pc = "wait" /\ pc' # pc)]_vars

\* the tracee has stopped again after a resume and, no wait_on_signal having
\* run, the status still is Running
C19_Witness ==
    /\ client = "api" /\ pc = "api" /\ handle = "returned"
    /\ tracee.status = Running /\ proc.state = "tstop" /\ proc.waitable

\* wait_on_signal's waitpid has a status to return
WaitReturns ==
    /\ variant = "split" /\ pc \in {"ctor_wait", "wait"}
    /\ WaitKind(proc, tracee.pid) = "ret"

\* C20: every status word the blocking wait of wait_on_signal returns is
\* exactly one of stopped, exited and signaled, the handle's status becomes
\* Stopped for a stop, Exited for an exit and Terminated for a death by
\* signal, and the `unexpected wait status` branch is never reached.
C20_WaitStatusDecodes ==
    /\ [](why # "unexpected_wait_status")
    /\ [](WaitReturns =>
            Cardinality({k \in 1..3 : \/ k = 1 /\ WIFSTOPPED(proc.ws)
                                      \/ k = 2 /\ WIFEXITED(proc.ws)
                                      \/ k = 3 /\ WIFSIGNALED(proc.ws)}) = 1)
    /\ [][(WaitReturns /\ pc' # pc) =>
            /\ tracee'.status = Stopped <=> proc.state = "tstop"
            /\ tracee'.status = Exited <=>
                  (proc.state = "zombie" /\ \E c \in 0..255 : proc.ws = ExitStatus(c))
            /\ tracee'.status = Terminated <=>
                  (proc.state = "zombie" /\ \E sig \in 1..31 : proc.ws = KillStatus(sig))]_vars

\* a wait_on_signal after a resume has decoded a death by signal
C20_Witness ==
    /\ variant = "split" /\ handle = "returned" /\ tracee.status = Terminated
    /\ pc \in {"prompt", "api"} /\ proc.state = "gone"

\* C21: after the fork the child ends in one of two ways only: exec replaces
\* its image, or it writes one failure message and exits with a non-zero
\* status.  It never goes on in the tracer's code: it reaches no panic (the
\* `should have successfully exec'ed` assertion, a failed unwrap), and it is
\* on its way to exit only with its message written and no exec done.
C21_ChildExecsOrReports ==
    /\ childpc # "panic"
    /\ childpc = "exit" => (sent /\ ~execd /\ Len(buf) + Len(errStr) > 0)

\* a Pipe was created in the tracer and its scope has ended
PipeGone ==
    /\ cmd \in {"Fork", "Pipe"} /\ pc # "start" /\ why # "pipe"
    /\ ~pipeLive

\* C22: in the tracer, once a channel has gone out of scope both of its
\* descriptors are closed and each was closed by exactly one libc::close, on
\* the spawn's success and on its failure alike; the tracer never exits with
\* the channel still in scope.
C22_NoLeakNoDoubleClose ==
    /\ PipeGone =>
          /\ pfds = {}
          /\ pipe = [read_fd |-> ClosedFd, write_fd |-> ClosedFd]
          /\ closes.ros = 1 /\ closes.sos = 1
    /\ pc = "exited" => ~pipeLive

\* a spawn has failed on the child's report and the tracer has exited with
\* both descriptors closed
C22_Witness ==
    /\ cmd = "Fork" /\ why = "fork_and_trace" /\ pc = "exited"
    /\ pfds = {} /\ closes.ros = 1 /\ closes.sos = 1 /\ closes.scalls = 2

\* C23: teardown only ever signals, detaches from or waits on the positive
\* pid of a process that was attached or forked; after a fork that returned
\* -1 no handle is built.
C23_TeardownOnlyRealPid ==
    /\ tdlog # <<>> => tracee.pid = TargetPid
    /\ pid = ForkFailed => handle = "none"

\* C24: the teardown of a handle whose status is Exited or Terminated issues
\* no detach request and no SIGCONT or SIGKILL for the stored pid.
C24_NoSignalAfterReap ==
    HandleDead =>
        \A i \in DOMAIN tdlog : tdlog[i] \notin {"detach", "kill_cont", "kill_kill"}

====
